---- MODULE Spec2Model ----
(***************************************************************************)
(* Model of egui_plot/src/items/kline_elem.rs: the KlinePlotPoint element  *)
(* (a candlestick / box-and-whisker glyph), its builder setters, its shape *)
(* generation and its RectElement queries.                                 *)
(*                                                                         *)
(* Numbers.  Every f64 of the program is held as an integer count of       *)
(* 1/40ths (Fx(1) = 40 stands for 1.0), so that 0.25, 0.15 and the halves  *)
(* of every width used here are exact, as they are in f64.                 *)
(***************************************************************************)
EXTENDS Integers, Sequences, FiniteSets, TLC

VARIABLES elem, expected, shapes, cursors, call, result

vars == <<elem, expected, shapes, cursors, call, result>>

---------------------------------------------------------------------------
(* Fixed-point helpers *)

Fx(n) == 40 * n

\* x / 2.0; exact for the even numerators used by this model
Half(x) == x \div 2

\* f64::max
Max(a, b) == IF a >= b THEN a ELSE b

Abs(x) == IF x < 0 THEN 0 - x ELSE x

---------------------------------------------------------------------------
(* Types of the program *)

\* KlineData::new, lines 32-46: each parameter goes to the field of its name
KlineData(o, h, l, c, v) == [o |-> o, h |-> h, l |-> l, c |-> c, v |-> v]

PlotPoint(x, y) == [x |-> x, y |-> y]

Color(n) == [name |-> n, adjusted |-> FALSE]

TRANSPARENT == Color("TRANSPARENT")

Stroke(width, color) == [width |-> width, color |-> color]

\* Orientation::default()
OrientationDefault == "Vertical"

\* 0.25 and 0.15 in 1/40ths
DefaultBoxWidth == 10

DefaultWhiskerWidth == 6

---------------------------------------------------------------------------
(* Collaborators: RectElement::point_at, highlighted_color, PlotTransform *)

\* swaps the axes when the element is horizontal
point_at(self, argument, value) ==
    IF self.orientation = "Horizontal"
    THEN PlotPoint(value, argument)
    ELSE PlotPoint(argument, value)

\* an adjusted stroke and an adjusted fill
highlighted_color(stroke, fill) ==
    << [stroke EXCEPT !.color.adjusted = TRUE], [fill EXCEPT !.adjusted = TRUE] >>

\* A transform is [frame_min |-> screen point, dvalue_dpos |-> <<sx, sy>>].
\* Each scale (plot units per screen unit along one axis) is an f64:
\*   cls = "fin":  the rational num / den (den > 0), or, with below = TRUE,
\*                 an f64 below it by a few units in the last place;
\*   cls = "inf":  an infinity;   cls = "nan":  a NaN.
Scale(num, den) == [cls |-> "fin", num |-> num, den |-> den, below |-> FALSE]

ScaleBelow(num, den) == [cls |-> "fin", num |-> num, den |-> den, below |-> TRUE]

InfScale == [cls |-> "inf", num |-> 1, den |-> 1, below |-> FALSE]

NanScale == [cls |-> "nan", num |-> 1, den |-> 1, below |-> FALSE]

Transform(fx, fy, sx, sy) ==
    [frame_min |-> [x |-> fx, y |-> fy], dvalue_dpos |-> <<sx, sy>>]

dvalue_dpos(transform) == transform.dvalue_dpos

\* value / scale, for a scale of numerator +1 or -1
ToScreen(q, s) == IF s.num < 0 THEN 0 - (q * s.den) ELSE q * s.den

position_from_point(transform, p) ==
    [x |-> transform.frame_min.x + ToScreen(p.x, transform.dvalue_dpos[1]),
     y |-> transform.frame_min.y + ToScreen(p.y, transform.dvalue_dpos[2])]

\* the screen rectangle spanned by two plot points
rect_from_values(transform, p1, p2) ==
    LET a == position_from_point(transform, p1)
        b == position_from_point(transform, p2)
    IN  [min |-> [x |-> IF a.x <= b.x THEN a.x ELSE b.x,
                  y |-> IF a.y <= b.y THEN a.y ELSE b.y],
         max |-> [x |-> IF a.x >= b.x THEN a.x ELSE b.x,
                  y |-> IF a.y >= b.y THEN a.y ELSE b.y]]

---------------------------------------------------------------------------
(* Constructor and builder setters, lines 84-145 *)

new(argument, spread) ==
    [argument      |-> argument,
     orientation   |-> OrientationDefault,
     name          |-> "",
     spread        |-> spread,
     box_width     |-> DefaultBoxWidth,
     whisker_width |-> DefaultWhiskerWidth,
     stroke        |-> Stroke(Fx(1), TRANSPARENT),
     fill          |-> TRANSPARENT]

name(self, n) == [self EXCEPT !.name = n]

stroke(self, s) == [self EXCEPT !.stroke = s]

fill(self, color) == [self EXCEPT !.fill = color]

box_width(self, width) == [self EXCEPT !.box_width = width]

\* slip: the whisker setter writes the box width
whisker_width_sets_box(self, width) == [self EXCEPT !.box_width = width]

whisker_width(self, width) == [self EXCEPT !.whisker_width = width]

vertical(self) == [self EXCEPT !.orientation = "Vertical"]

horizontal(self) == [self EXCEPT !.orientation = "Horizontal"]

---------------------------------------------------------------------------
(* Shapes, and KlinePlotPoint::add_shapes, lines 147-228 *)

\* Shape::Rect(RectShape::new(rect, CornerRadius::ZERO, fill, stroke, Inside))
RectShape(rect, fillc, strokev) ==
    [kind |-> "Rect", rect |-> rect, corner_radius |-> 0,
     fill |-> fillc, stroke |-> strokev, stroke_kind |-> "Inside"]

\* the closure line_between, lines 172-180
line_between(transform, strokev, v1, v2) ==
    [kind |-> "LineSegment",
     points |-> << position_from_point(transform, v1),
                   position_from_point(transform, v2) >>,
     stroke |-> strokev]

\* One push onto the output vector: the shape, and the local binding of
\* add_shapes that held it.
Push(binding, shape) == [binding |-> binding, shape |-> shape]

\* lines 153-157
effective_colors(self, highlighted) ==
    IF highlighted
    THEN highlighted_color(self.stroke, self.fill)
    ELSE << self.stroke, self.fill >>

\* lines 159-170
push_rect(self, transform, strokev, fillc) ==
    << Push("rect",
            RectShape(rect_from_values(transform,
                          point_at(self, self.argument - Half(self.box_width), self.spread.o),
                          point_at(self, self.argument + Half(self.box_width), self.spread.c)),
                      fillc, strokev)) >>

\* slip: the centre line drawn at field l
push_v_at_l(self, transform, strokev) ==
    << Push("v",
            line_between(transform, strokev,
                point_at(self, self.argument - Half(self.box_width), self.spread.l),
                point_at(self, self.argument + Half(self.box_width), self.spread.l))) >>

\* lines 181-185
push_v(self, transform, strokev) ==
    << Push("v",
            line_between(transform, strokev,
                point_at(self, self.argument - Half(self.box_width), self.spread.v),
                point_at(self, self.argument + Half(self.box_width), self.spread.v))) >>

\* slip: the upper whisker drawn when h >= c
push_high_whisker_nonstrict(self, transform, strokev) ==
    IF self.spread.h >= self.spread.c
    THEN << Push("high_whisker",
                 line_between(transform, strokev,
                     point_at(self, self.argument, self.spread.c),
                     point_at(self, self.argument, self.spread.h))) >>
         \o (IF self.box_width > 0
             THEN << Push("high_whisker_end",
                          line_between(transform, strokev,
                              point_at(self, self.argument - Half(self.whisker_width),
                                       self.spread.h),
                              point_at(self, self.argument + Half(self.whisker_width),
                                       self.spread.h))) >>
             ELSE << >>)
    ELSE << >>

\* slip: the upper cap guarded by whisker_width instead of box_width
push_high_whisker_cap_by_whisker_width(self, transform, strokev) ==
    IF self.spread.h > self.spread.c
    THEN << Push("high_whisker",
                 line_between(transform, strokev,
                     point_at(self, self.argument, self.spread.c),
                     point_at(self, self.argument, self.spread.h))) >>
         \o (IF self.whisker_width > 0
             THEN << Push("high_whisker_end",
                          line_between(transform, strokev,
                              point_at(self, self.argument - Half(self.whisker_width),
                                       self.spread.h),
                              point_at(self, self.argument + Half(self.whisker_width),
                                       self.spread.h))) >>
             ELSE << >>)
    ELSE << >>

\* lines 187-206
push_high_whisker(self, transform, strokev) ==
    IF self.spread.h > self.spread.c
    THEN << Push("high_whisker",
                 line_between(transform, strokev,
                     point_at(self, self.argument, self.spread.c),
                     point_at(self, self.argument, self.spread.h))) >>
         \o (IF self.box_width > 0
             THEN << Push("high_whisker_end",
                          line_between(transform, strokev,
                              point_at(self, self.argument - Half(self.whisker_width),
                                       self.spread.h),
                              point_at(self, self.argument + Half(self.whisker_width),
                                       self.spread.h))) >>
             ELSE << >>)
    ELSE << >>

\* slip: the lower whisker drawn from the box edge c instead of o
push_low_whisker_from_c(self, transform, strokev) ==
    IF self.spread.l < self.spread.c
    THEN << Push("low_whisker",
                 line_between(transform, strokev,
                     point_at(self, self.argument, self.spread.c),
                     point_at(self, self.argument, self.spread.l))) >>
         \o (IF self.box_width > 0
             THEN << Push("low_whisker_end",
                          line_between(transform, strokev,
                              point_at(self, self.argument - Half(self.whisker_width),
                                       self.spread.l),
                              point_at(self, self.argument + Half(self.whisker_width),
                                       self.spread.l))) >>
             ELSE << >>)
    ELSE << >>

\* slip: the lower cap drawn when box_width >= 0
push_low_whisker_cap_at_zero_width(self, transform, strokev) ==
    IF self.spread.l < self.spread.o
    THEN << Push("low_whisker",
                 line_between(transform, strokev,
                     point_at(self, self.argument, self.spread.o),
                     point_at(self, self.argument, self.spread.l))) >>
         \o (IF self.box_width >= 0
             THEN << Push("low_whisker_end",
                          line_between(transform, strokev,
                              point_at(self, self.argument - Half(self.whisker_width),
                                       self.spread.l),
                              point_at(self, self.argument + Half(self.whisker_width),
                                       self.spread.l))) >>
             ELSE << >>)
    ELSE << >>

\* lines 208-227
push_low_whisker(self, transform, strokev) ==
    IF self.spread.l < self.spread.o
    THEN << Push("low_whisker",
                 line_between(transform, strokev,
                     point_at(self, self.argument, self.spread.o),
                     point_at(self, self.argument, self.spread.l))) >>
         \o (IF self.box_width > 0
             THEN << Push("low_whisker_end",
                          line_between(transform, strokev,
                              point_at(self, self.argument - Half(self.whisker_width),
                                       self.spread.l),
                              point_at(self, self.argument + Half(self.whisker_width),
                                       self.spread.l))) >>
             ELSE << >>)
    ELSE << >>

\* slip: the lower whisker pushed before the upper one
add_shapes_pushes_low_first(self, transform, highlighted) ==
    LET sf == effective_colors(self, highlighted)
    IN  push_rect(self, transform, sf[1], sf[2])
        \o push_v(self, transform, sf[1])
        \o push_low_whisker(self, transform, sf[1])
        \o push_high_whisker(self, transform, sf[1])

\* the pushes of one call, in program order
add_shapes_pushes(self, transform, highlighted) ==
    LET sf == effective_colors(self, highlighted)
    IN  push_rect(self, transform, sf[1], sf[2])
        \o push_v(self, transform, sf[1])
        \o push_high_whisker(self, transform, sf[1])
        \o push_low_whisker(self, transform, sf[1])

\* the output vector after the call
add_shapes(self, transform, highlighted, out) ==
    LET p == add_shapes_pushes(self, transform, highlighted)
    IN  out \o [i \in 1..Len(p) |-> p[i].shape]

---------------------------------------------------------------------------
(* impl RectElement for KlinePlotPoint, lines 246-304 *)

\* slip: the extent taken from the box width alone
bounds_min_box_only(self) ==
    LET argument == self.argument - Half(self.box_width)
        value    == self.spread.l
    IN  point_at(self, argument, value)

\* lines 251-255
bounds_min(self) ==
    LET argument == self.argument - Half(Max(self.box_width, self.whisker_width))
        value    == self.spread.l
    IN  point_at(self, argument, value)

\* lines 257-261
bounds_max(self) ==
    LET argument == self.argument + Half(Max(self.box_width, self.whisker_width))
        value    == self.spread.h
    IN  point_at(self, argument, value)

\* slip: the last ruler point taken at o, like the second
values_with_ruler_o_twice(self) ==
    LET v     == point_at(self, self.argument, self.spread.v)
        q1    == point_at(self, self.argument, self.spread.o)
        q3    == point_at(self, self.argument, self.spread.c)
        upper == point_at(self, self.argument, self.spread.h)
        lower == point_at(self, self.argument, self.spread.o)
    IN  << v, q1, q3, upper, lower >>

\* lines 263-271
values_with_ruler(self) ==
    LET v     == point_at(self, self.argument, self.spread.v)
        q1    == point_at(self, self.argument, self.spread.o)
        q3    == point_at(self, self.argument, self.spread.c)
        upper == point_at(self, self.argument, self.spread.h)
        lower == point_at(self, self.argument, self.spread.l)
    IN  << v, q1, q3, upper, lower >>

\* lines 277-279
corner_value(self) == point_at(self, self.argument, self.spread.h)

\* floor(log2(k)), k >= 1
RECURSIVE Log2Floor(_)
Log2Floor(k) == IF k < 2 THEN 0 ELSE 1 + Log2Floor(k \div 2)

RECURSIVE IsPowerOfTwo(_)
IsPowerOfTwo(k) == k = 1 \/ (k > 1 /\ k % 2 = 0 /\ IsPowerOfTwo(k \div 2))

\* f64::log10 has no fixed precision: it returns the exact logarithm when that
\* is an f64, and otherwise one of the two f64 that enclose it, which of the
\* two being up to the platform's library (`log10_up`: the upper one).
\* Next to an integer m the f64 lie 2^e * 2^-52 apart, so for p < q the
\* integer 0 encloses log10(p/q) from above when
\* (q - p)/p < ln(10) * 2^e * 2^-52.  LogBand is that bound on q - p.
LogBand(p, e) ==
    ((((p \div (2 ^ 26)) * 2302585) * (2 ^ (e + 2))) \div (2 ^ 28)) \div 1000000

\* the f64 p/q, or the f64 next below it when `below`, is less than 1 and its
\* logarithm has 0 as its upper neighbour
LogEnclosed(p, q, e, below) ==
    IF below /\ p = q THEN TRUE ELSE p < q /\ p + LogBand(p, e) > q

\* log10(p/q) >= 0 as the library returns it; e as in LogBand
LogReaches(p, q, e, below, log10_up) ==
    IF LogEnclosed(p, q, e, below) THEN log10_up ELSE p >= q

\* least k' >= k with log10(num * 10^k' / den) >= 0 as returned, for num < den
\* (the f64 just above k' are 2^Log2Floor(k') * 2^-52 apart)
RECURSIVE DigitsUp(_, _, _, _, _)
DigitsUp(num, den, k, below, log10_up) ==
    IF LogReaches(num * 10, den, Log2Floor(k), below, log10_up)
    THEN k
    ELSE DigitsUp(num * 10, den, k + 1, below, log10_up)

\* greatest j' >= j with log10(num / (den * 10^j')) >= 0 as returned, for
\* num >= den (the f64 just below j' are half as far apart when j' is a power
\* of two)
RECURSIVE DigitsDown(_, _, _, _, _)
DigitsDown(num, den, j, below, log10_up) ==
    IF LogReaches(num, den * 10,
                  Log2Floor(j + 1) - (IF IsPowerOfTwo(j + 1) THEN 1 ELSE 0),
                  below, log10_up)
    THEN DigitsDown(num, den * 10, j + 1, below, log10_up)
    ELSE j

\* an f64 that holds an integer, an infinity or a NaN
F64(cls, n) == [cls |-> cls, n |-> n]

\* (-scale.abs().log10()).ceil()
NegLog10Ceil(s, log10_up) ==
    LET n == Abs(s.num)
    IN  IF s.cls = "nan" THEN F64("nan", 0)
        ELSE IF s.cls = "inf" THEN F64("neginf", 0)
        ELSE IF n = 0 THEN F64("posinf", 0)
        ELSE IF n < s.den \/ (n = s.den /\ s.below)
             THEN F64("fin", DigitsUp(n, s.den, 1, s.below, log10_up))
        ELSE F64("fin", 0 - DigitsDown(n, s.den, 0, s.below, log10_up))

\* f64 at_least(0.0), which is f64::max(self, 0.0): 0.0 for a NaN
AtLeastZero(f) ==
    IF f.cls = "posinf" \/ (f.cls = "fin" /\ f.n >= 0) THEN f ELSE F64("fin", 0)

\* (f as usize).at_most(m): the cast saturates +infinity to usize::MAX
AsUsizeAtMost(f, m) == IF f.cls = "posinf" \/ f.n > m THEN m ELSE f.n

\* slip: the scale components of the two orientations exchanged
y_decimals_axes_swapped(self, transform, log10_up) ==
    LET scale2 == dvalue_dpos(transform)
        scale  == IF self.orientation = "Horizontal" THEN scale2[2] ELSE scale2[1]
    IN  Max(AsUsizeAtMost(AtLeastZero(NegLog10Ceil(scale, log10_up)), 6), 1)

\* lines 282-289
y_decimals(self, transform, log10_up) ==
    LET scale2 == dvalue_dpos(transform)
        scale  == IF self.orientation = "Horizontal" THEN scale2[1] ELSE scale2[2]
    IN  Max(AsUsizeAtMost(AtLeastZero(NegLog10Ceil(scale, log10_up)), 6), 1)

\* lines 281-303: the five lines of text, each value printed with `decimals`
\* digits after the point
default_values_format(self, transform, log10_up) ==
    [decimals |-> y_decimals(self, transform, log10_up),
     lines    |-> << << "Max", self.spread.h >>,
                     << "Quartile 3", self.spread.c >>,
                     << "Median", self.spread.v >>,
                     << "Quartile 1", self.spread.o >>,
                     << "Min", self.spread.l >> >>]

---------------------------------------------------------------------------
(* KlinePlotPoint::add_rulers_and_text, lines 230-243 *)

\* an Option: None, or Some(value)
None == [some |-> FALSE, value |-> ""]

Some(value) == [some |-> TRUE, value |-> value]

\* lines 237-240: parent.element_formatter.as_ref().map(|fmt| fmt(self, parent))
element_text(self, formatter) ==
    IF formatter.some THEN Some(formatter.value) ELSE None

\* the shared routine: a cursor at each ruler value and the text, anchored at
\* the corner value; gives the two vectors as it leaves them
rulers_and_text(self, transform, text, out, cur) ==
    [shapes  |-> out \o << [kind |-> "Text",
                            pos  |-> position_from_point(transform, corner_value(self)),
                            text |-> text] >>,
     cursors |-> cur \o [i \in 1..Len(values_with_ruler(self)) |->
                            [kind |-> "Cursor", at |-> values_with_ruler(self)[i]]]]

\* line 242
add_rulers_and_text(self, formatter, transform, out, cur) ==
    rulers_and_text(self, transform, element_text(self, formatter), out, cur)

---------------------------------------------------------------------------
(* Inputs *)

\* SpreadValues{o:10, h:15, l:20, c:25, v:30}
ExampleSpread == KlineData(Fx(10), Fx(15), Fx(20), Fx(25), Fx(30))

\* h below, at and above c; l below, at and above o; o, c and v all different
Spreads ==
    { KlineData(Fx(14), h, l, Fx(16), Fx(12)) :
        h \in {Fx(10), Fx(16), Fx(20)}, l \in {Fx(10), Fx(14), Fx(20)} }
    \cup {ExampleSpread}

Arguments == {Fx(5)}

Names == {"kline"}

Strokes == {Stroke(Fx(2), Color("RED"))}

Fills == {Color("GREEN")}

BoxWidths == {0 - Fx(2), 0, Fx(2)}

WhiskerWidths == {Fx(1)}

\* the parent's element_formatter: absent, or a callback and the text it gives
Formatters == {None, Some("custom")}

\* a transform that can place points: numerators +1 / -1 (screen y grows downwards)
DrawTransforms == { Transform(100, 600, Scale(1, 100), Scale(-1, 1000)) }

\* transforms of which only the scale is read
Transforms ==
    DrawTransforms
    \cup { Transform(0, 0, Scale(50, 1), Scale(-20, 1)),
           Transform(0, 0, Scale(3, 100000), Scale(-1, 10000)),
           Transform(0, 0, Scale(1, 10000000), Scale(-1, 100000000)),
           Transform(0, 0, Scale(0, 1), Scale(0, 1)),
           Transform(0, 0, ScaleBelow(1, 10), ScaleBelow(-1, 100000)),
           Transform(0, 0, ScaleBelow(100, 1), ScaleBelow(-1, 1)),
           Transform(0, 0, InfScale, NanScale),
           Transform(0, 0, NanScale, InfScale) }

\* elements the builder makes: new alone, and new followed by the whole chain
\* of setters
Built ==
    LET e0 == { new(argument, spread) : argument \in Arguments, spread \in Spreads }
        e1 == { whisker_width(box_width(fill(stroke(name(e, n), st), c), bw), ww) :
                  e \in e0, n \in Names, st \in Strokes, c \in Fills,
                  bw \in BoxWidths, ww \in WhiskerWidths }
    IN  e0 \cup { vertical(e) : e \in e1 } \cup { horizontal(e) : e \in e1 }

\* add_shapes is not called on a vector of this length or more
MaxShapes == 7

\* add_rulers_and_text is not called on a cursor vector of this length or more
MaxCursors == 6

NoCall ==
    [done |-> FALSE, self |-> << >>, transform |-> << >>, highlighted |-> FALSE,
     before |-> << >>, pushed |-> << >>]

NoResult == [op |-> "none", transform |-> << >>, log10_up |-> FALSE, value |-> << >>]

---------------------------------------------------------------------------
(* State machine *)

\* elem     the KlinePlotPoint
\* expected what the documented builder contract makes of the same calls
\* shapes   the caller's output Vec<Shape>
\* cursors  the caller's output Vec<Cursor>
\* call     the add_shapes call that last changed `shapes`: its inputs, the
\*          vector before it, and the bindings it pushed
\* result   the value the last RectElement query returned, with the transform
\*          it was given and the neighbour the library's log10 returned

\* the state after KlinePlotPoint::new
Init ==
    /\ \E argument \in Arguments, spread \in Spreads :
          /\ elem = new(argument, spread)
          /\ expected = [argument |-> argument, spread |-> spread, name |-> "",
                         orientation |-> "Vertical",
                         box_width |-> 10, whisker_width |-> 6,
                         stroke |-> Stroke(Fx(1), TRANSPARENT),
                         fill |-> TRANSPARENT]
    /\ shapes = << >>
    /\ cursors = << >>
    /\ call = NoCall
    /\ result = NoResult

\* a finished element, about to be drawn or queried
InitBuilt ==
    /\ elem \in Built
    /\ expected = elem
    /\ shapes = << >>
    /\ cursors = << >>
    /\ call = NoCall
    /\ result = NoResult

SetName ==
    /\ \E n \in Names :
          /\ elem' = name(elem, n)
          /\ expected' = [expected EXCEPT !.name = n]
    /\ UNCHANGED <<shapes, cursors, call, result>>

SetStroke ==
    /\ \E s \in Strokes :
          /\ elem' = stroke(elem, s)
          /\ expected' = [expected EXCEPT !.stroke = s]
    /\ UNCHANGED <<shapes, cursors, call, result>>

SetFill ==
    /\ \E c \in Fills :
          /\ elem' = fill(elem, c)
          /\ expected' = [expected EXCEPT !.fill = c]
    /\ UNCHANGED <<shapes, cursors, call, result>>

SetBoxWidth ==
    /\ \E w \in BoxWidths :
          /\ elem' = box_width(elem, w)
          /\ expected' = [expected EXCEPT !.box_width = w]
    /\ UNCHANGED <<shapes, cursors, call, result>>

SetWhiskerWidth ==
    /\ \E w \in WhiskerWidths :
          /\ elem' = whisker_width(elem, w)
          /\ expected' = [expected EXCEPT !.whisker_width = w]
    /\ UNCHANGED <<shapes, cursors, call, result>>

SetVertical ==
    /\ elem' = vertical(elem)
    /\ expected' = [expected EXCEPT !.orientation = "Vertical"]
    /\ UNCHANGED <<shapes, cursors, call, result>>

SetHorizontal ==
    /\ elem' = horizontal(elem)
    /\ expected' = [expected EXCEPT !.orientation = "Horizontal"]
    /\ UNCHANGED <<shapes, cursors, call, result>>

AddShapes ==
    /\ Len(shapes) < MaxShapes
    /\ \E transform \in DrawTransforms, highlighted \in BOOLEAN :
          /\ shapes' = add_shapes(elem, transform, highlighted, shapes)
          /\ call' = [done |-> TRUE, self |-> elem, transform |-> transform,
                      highlighted |-> highlighted, before |-> shapes,
                      pushed |-> LET p == add_shapes_pushes(elem, transform, highlighted)
                                 IN  [i \in 1..Len(p) |-> p[i].binding]]
    /\ UNCHANGED <<elem, expected, cursors, result>>

AddRulersAndText ==
    /\ Len(cursors) < MaxCursors
    /\ \E formatter \in Formatters, transform \in DrawTransforms :
          LET r == add_rulers_and_text(elem, formatter, transform, shapes, cursors)
          IN  /\ shapes' = r.shapes
              /\ cursors' = r.cursors
    /\ call' = NoCall
    /\ UNCHANGED <<elem, expected, result>>

NameOf ==
    /\ result' = [op |-> "name", transform |-> << >>, log10_up |-> FALSE, value |-> elem.name]
    /\ UNCHANGED <<elem, expected, shapes, cursors, call>>

OrientationOf ==
    /\ result' = [op |-> "orientation", transform |-> << >>, log10_up |-> FALSE, value |-> elem.orientation]
    /\ UNCHANGED <<elem, expected, shapes, cursors, call>>

CornerValue ==
    /\ result' = [op |-> "corner_value", transform |-> << >>, log10_up |-> FALSE, value |-> corner_value(elem)]
    /\ UNCHANGED <<elem, expected, shapes, cursors, call>>

BoundsMin ==
    /\ result' = [op |-> "bounds_min", transform |-> << >>, log10_up |-> FALSE, value |-> bounds_min(elem)]
    /\ UNCHANGED <<elem, expected, shapes, cursors, call>>

BoundsMax ==
    /\ result' = [op |-> "bounds_max", transform |-> << >>, log10_up |-> FALSE, value |-> bounds_max(elem)]
    /\ UNCHANGED <<elem, expected, shapes, cursors, call>>

ValuesWithRuler ==
    /\ result' = [op |-> "values_with_ruler", transform |-> << >>,
                  log10_up |-> FALSE, value |-> values_with_ruler(elem)]
    /\ UNCHANGED <<elem, expected, shapes, cursors, call>>

DefaultValuesFormat ==
    /\ \E transform \in Transforms, log10_up \in BOOLEAN :
          result' = [op |-> "default_values_format", transform |-> transform,
                     log10_up |-> log10_up,
                     value |-> default_values_format(elem, transform, log10_up)]
    /\ UNCHANGED <<elem, expected, shapes, cursors, call>>

\* the builder: new, then chained setters
Next ==
    \/ SetName
    \/ SetStroke
    \/ SetFill
    \/ SetBoxWidth
    \/ SetWhiskerWidth
    \/ SetVertical
    \/ SetHorizontal

Spec == Init /\ [][Next]_vars

\* drawing a finished element, any number of times, into the caller's vectors
NextShapes ==
    \/ AddShapes
    \/ AddRulersAndText

SpecShapes == InitBuilt /\ [][NextShapes]_vars

\* the RectElement queries on a finished element
NextQueries ==
    \/ NameOf
    \/ OrientationOf
    \/ CornerValue
    \/ BoundsMin
    \/ BoundsMax
    \/ ValuesWithRuler
    \/ DefaultValuesFormat

SpecQueries == InitBuilt /\ [][NextQueries]_vars

---------------------------------------------------------------------------
(* Vocabulary of the properties *)

\* the shapes the last add_shapes call appended
Appended == SubSeq(shapes, Len(call.before) + 1, Len(shapes))

\* the last call pushed the shape bound to `binding`
Emitted(binding) == \E i \in DOMAIN call.pushed : call.pushed[i] = binding

\* where it stands among the appended shapes
IndexOf(binding) == CHOOSE i \in DOMAIN call.pushed : call.pushed[i] = binding

\* the screen segment between two (argument, value) points of the called element
Segment(a1, v1, a2, v2) ==
    << position_from_point(call.transform, point_at(call.self, a1, v1)),
       position_from_point(call.transform, point_at(call.self, a2, v2)) >>

\* the argument-axis and value-axis coordinates of a plot point of `self`
ArgOf(self, p) == IF self.orientation = "Horizontal" THEN p.y ELSE p.x

ValOf(self, p) == IF self.orientation = "Horizontal" THEN p.x ELSE p.y

IsExample(self) == self.spread = ExampleSpread

\* position of a binding in the documented order
Rank(binding) ==
    CASE binding = "rect" -> 1
      [] binding = "v" -> 2
      [] binding = "high_whisker" -> 3
      [] binding = "high_whisker_end" -> 4
      [] binding = "low_whisker" -> 5
      [] binding = "low_whisker_end" -> 6

---------------------------------------------------------------------------
(* Properties of add_shapes *)

\* C1, as stated: the upper-whisker line is emitted exactly when field v is
\* strictly above field c, and so it is emitted for the example spread.
C1_UpperWhiskerByV ==
    call.done =>
        /\ Emitted("high_whisker") <=> call.self.spread.v > call.self.spread.c
        /\ IsExample(call.self) => Emitted("high_whisker")

\* C1, amended: the upper-whisker line is emitted exactly when field h is
\* strictly above field c; it runs from (argument, c) to (argument, h); when
\* h <= c neither the line nor its cap is appended; for the example spread
\* (h = 15, c = 25) it is not emitted.
C1_UpperWhiskerByH ==
    call.done =>
        LET self == call.self
        IN  /\ Emitted("high_whisker") <=> self.spread.h > self.spread.c
            /\ self.spread.h <= self.spread.c =>
                  ~Emitted("high_whisker") /\ ~Emitted("high_whisker_end")
            /\ Emitted("high_whisker") =>
                  Appended[IndexOf("high_whisker")].points =
                      Segment(self.argument, self.spread.c, self.argument, self.spread.h)
            /\ IsExample(self) => ~Emitted("high_whisker")

\* an upper whisker drawn although v <= c
C1_Witness ==
    /\ call.done
    /\ Emitted("high_whisker")
    /\ call.self.spread.v <= call.self.spread.c

\* C2: the lower-whisker line is emitted exactly when field l is strictly
\* below field o; when l >= o neither the line nor its cap is appended; when
\* emitted the line runs from (argument, o) to (argument, l).
C2_LowerWhisker ==
    call.done =>
        LET self == call.self
        IN  /\ Emitted("low_whisker") <=> self.spread.l < self.spread.o
            /\ self.spread.l >= self.spread.o =>
                  ~Emitted("low_whisker") /\ ~Emitted("low_whisker_end")
            /\ Emitted("low_whisker") =>
                  /\ Appended[IndexOf("low_whisker")].kind = "LineSegment"
                  /\ Appended[IndexOf("low_whisker")].points =
                        Segment(self.argument, self.spread.o, self.argument, self.spread.l)

\* a lower whisker was drawn
C2_Witness ==
    /\ call.done
    /\ Emitted("low_whisker")
    /\ call.self.spread.l < call.self.spread.o

\* C3: a cap is appended only together with its whisker line and only when
\* box_width > 0; with box_width = 0 no cap is appended, whatever
\* whisker_width is.
C3_CapsNeedBoxWidth ==
    call.done =>
        LET self == call.self
        IN  /\ Emitted("high_whisker_end") =>
                  Emitted("high_whisker") /\ self.box_width > 0
            /\ Emitted("low_whisker_end") =>
                  Emitted("low_whisker") /\ self.box_width > 0
            /\ self.box_width = 0 =>
                  ~Emitted("high_whisker_end") /\ ~Emitted("low_whisker_end")

\* both whisker lines drawn by an element of box_width 0 and whisker_width > 0
C3_Witness ==
    /\ call.done
    /\ call.self.box_width = 0
    /\ call.self.whisker_width > 0
    /\ Emitted("high_whisker")
    /\ Emitted("low_whisker")

\* the number of whiskers a call draws
Whiskers(self) ==
    (IF self.spread.h > self.spread.c THEN 1 ELSE 0)
    + (IF self.spread.l < self.spread.o THEN 1 ELSE 0)

\* C4, as stated: one call appends 2, 4 or 6 shapes.
C4_CountEven ==
    call.done => Len(shapes) - Len(call.before) \in {2, 4, 6}

\* C4, amended: one call appends the rectangle and the centre line, and per
\* visible whisker its line, with the cap only when box_width > 0: 2, 3, 4 or
\* 6 shapes, never more than 6, and 2, 4 or 6 when box_width > 0.
C4_Count ==
    call.done =>
        LET n == Len(shapes) - Len(call.before)
        IN  /\ n = 2 + Whiskers(call.self) * (IF call.self.box_width > 0 THEN 2 ELSE 1)
            /\ n \in {2, 3, 4, 6}
            /\ call.self.box_width > 0 => n \in {2, 4, 6}
            /\ Appended[1].kind = "Rect"
            /\ Appended[2].kind = "LineSegment"

\* a call that appended three shapes
C4_Witness ==
    /\ call.done
    /\ Len(shapes) - Len(call.before) = 3

\* C5: the shapes of a call follow what the vector held, in the order
\* rectangle, centre line, upper whisker line, its cap, lower whisker line,
\* its cap; each cap directly after its line.
C5_Order ==
    call.done =>
        /\ Len(shapes) = Len(call.before) + Len(call.pushed)
        /\ SubSeq(shapes, 1, Len(call.before)) = call.before
        /\ Len(call.pushed) >= 2
        /\ call.pushed[1] = "rect" /\ Appended[1].kind = "Rect"
        /\ call.pushed[2] = "v"
        /\ \A i \in 2..Len(call.pushed) : Appended[i].kind = "LineSegment"
        /\ \A i, j \in DOMAIN call.pushed :
              i < j => Rank(call.pushed[i]) < Rank(call.pushed[j])
        /\ \A i \in DOMAIN call.pushed :
              /\ call.pushed[i] = "high_whisker_end" => call.pushed[i - 1] = "high_whisker"
              /\ call.pushed[i] = "low_whisker_end" => call.pushed[i - 1] = "low_whisker"
        /\ Emitted("high_whisker") =>
              Appended[IndexOf("high_whisker")].points =
                  Segment(call.self.argument, call.self.spread.c,
                          call.self.argument, call.self.spread.h)
        /\ Emitted("low_whisker") =>
              Appended[IndexOf("low_whisker")].points =
                  Segment(call.self.argument, call.self.spread.o,
                          call.self.argument, call.self.spread.l)

\* all six shapes appended to a vector that was not empty
C5_Witness ==
    /\ call.done
    /\ Len(call.before) > 0
    /\ Len(call.pushed) = 6

\* C6, as stated: the second shape appended is the segment across the box
\* width at field l.
C6_CenterLineAtL ==
    call.done =>
        LET self == call.self
        IN  Appended[2].points =
                Segment(self.argument - Half(self.box_width), self.spread.l,
                        self.argument + Half(self.box_width), self.spread.l)

\* C6, amended: the second shape appended is the segment from
\* (argument - box_width/2, v) to (argument + box_width/2, v), v being the
\* field the value formatter calls the median; for the example spread,
\* argument 5 and box_width 2 it lies at value 30 and spans arguments 4 to 6.
C6_CenterLineAtV ==
    call.done =>
        LET self == call.self
        IN  /\ Appended[2].kind = "LineSegment"
            /\ Appended[2].points =
                  Segment(self.argument - Half(self.box_width), self.spread.v,
                          self.argument + Half(self.box_width), self.spread.v)
            /\ (IsExample(self) /\ self.argument = Fx(5) /\ self.box_width = Fx(2)) =>
                  Appended[2].points = Segment(Fx(4), Fx(30), Fx(6), Fx(30))

\* the example element, box_width 2, was drawn
C6_Witness ==
    /\ call.done
    /\ IsExample(call.self)
    /\ call.self.argument = Fx(5)
    /\ call.self.box_width = Fx(2)
    /\ call.self.spread.v # call.self.spread.l

---------------------------------------------------------------------------
(* Properties of the RectElement queries *)

\* the value-axis coordinates of a sequence of plot points
ValuesOf(self, points) == [i \in DOMAIN points |-> ValOf(self, points[i])]

\* C7, as stated: values_with_ruler returns five points at the element's
\* argument with the values v, o, c, h, o in this order.
C7_RulerEndsWithO ==
    result.op = "values_with_ruler" =>
        /\ Len(result.value) = 5
        /\ \A i \in 1..5 : ArgOf(elem, result.value[i]) = elem.argument
        /\ ValuesOf(elem, result.value) =
              << elem.spread.v, elem.spread.o, elem.spread.c, elem.spread.h,
                 elem.spread.o >>

\* C7, amended: values_with_ruler returns five points at the element's
\* argument with the values v, o, c, h, l in this order.
C7_RulerEndsWithL ==
    result.op = "values_with_ruler" =>
        /\ Len(result.value) = 5
        /\ \A i \in 1..5 : ArgOf(elem, result.value[i]) = elem.argument
        /\ ValuesOf(elem, result.value) =
              << elem.spread.v, elem.spread.o, elem.spread.c, elem.spread.h,
                 elem.spread.l >>

\* the ruler values of an element whose l and o differ
C7_Witness ==
    /\ result.op = "values_with_ruler"
    /\ elem.spread.l # elem.spread.o
    /\ elem.orientation = "Horizontal"

\* C8: bounds_min is the point (argument - max(box_width, whisker_width)/2, l)
\* and bounds_max the point (argument + max(box_width, whisker_width)/2, h).
C8_Bounds ==
    LET widest == IF elem.box_width >= elem.whisker_width
                  THEN elem.box_width ELSE elem.whisker_width
    IN  /\ result.op = "bounds_min" =>
              /\ 2 * (elem.argument - ArgOf(elem, result.value)) = widest
              /\ ValOf(elem, result.value) = elem.spread.l
        /\ result.op = "bounds_max" =>
              /\ 2 * (ArgOf(elem, result.value) - elem.argument) = widest
              /\ ValOf(elem, result.value) = elem.spread.h

\* bounds_min of an element whose l is neither o nor v, the whisker cap being
\* wider than the box
C8_Witness ==
    /\ result.op = "bounds_min"
    /\ elem.spread.l # elem.spread.o
    /\ elem.spread.l # elem.spread.v
    /\ elem.whisker_width > elem.box_width

\* the scale default_values_format reads: x for a horizontal element, y for a
\* vertical one
ValueAxisScale ==
    IF elem.orientation = "Horizontal"
    THEN result.transform.dvalue_dpos[1]
    ELSE result.transform.dvalue_dpos[2]

\* |s| >= 1/10^k in exact arithmetic; a scale just below num/den reaches the
\* power only when num/den is above it
ReachesExactly(s, k) ==
    IF s.below THEN Abs(s.num) * (10 ^ k) > s.den ELSE Abs(s.num) * (10 ^ k) >= s.den

\* s lies below 1/10^k by less than the precision of log10
JustBelow(s, k) == s.below /\ Abs(s.num) * (10 ^ k) = s.den

\* C9: the precision is clamp(ceil(-log10(|s|)), 1, 6), s the x scale of the
\* transform for a horizontal element and the y scale for a vertical one,
\* log10 being the f64 function of line 287.  It is an integer in 1..6 for
\* every scale: 1 for scales >= 1, for the infinities and for NaN, 6 for very
\* small scales and for a scale of exactly zero.  For a finite scale that is
\* 1 when |s| >= 1/10, k in 2..5 when 10^-k <= |s| < 10^-(k-1), and 6 when
\* |s| < 10^-5, unless the scale is so little below 10^-k, k in 1..5, that
\* log10 may return -k itself: then it is k when log10 returns -k and
\* min(k + 1, 6) when it returns the f64 below -k.
C9_Precision ==
    result.op = "default_values_format" =>
        LET s == ValueAxisScale
            d == result.value.decimals
        IN  /\ d \in 1..6
            /\ s.cls \in {"inf", "nan"} => d = 1
            /\ (s.cls = "fin" /\ s.num = 0) => d = 6
            /\ (s.cls = "fin" /\ Abs(s.num) >= s.den) => d = 1
            /\ (s.cls = "fin" /\ \A k \in 1..5 : ~JustBelow(s, k)) =>
                  /\ d = 1 <=> ReachesExactly(s, 1)
                  /\ \A k \in 2..5 :
                        d = k <=> (ReachesExactly(s, k) /\ ~ReachesExactly(s, k - 1))
                  /\ d = 6 <=> ~ReachesExactly(s, 5)
            /\ \A k \in 1..5 :
                  (s.cls = "fin" /\ JustBelow(s, k)) =>
                      d = (IF result.log10_up THEN k ELSE k + 1)

\* the text for a scale just below 1/100000 whose log10 came out as -5:
\* precision 5
C9_Witness ==
    /\ result.op = "default_values_format"
    /\ ValueAxisScale.cls = "fin"
    /\ JustBelow(ValueAxisScale, 5)
    /\ result.log10_up
    /\ result.value.decimals = 5

---------------------------------------------------------------------------
(* Properties of the builder *)

\* C10: after any chain of setters every field holds what the last setter
\* aimed at it supplied, or what the constructor gave it: the given argument
\* and spread, the empty name, Vertical, box_width 0.25, whisker_width 0.15.
C10_Setters == elem = expected

\* a chain that set name, box_width and orientation and left whisker_width alone
C10_Witness ==
    /\ elem.name = "kline"
    /\ elem.box_width = Fx(2)
    /\ elem.orientation = "Horizontal"
    /\ elem.whisker_width = 6
    /\ elem.fill = Color("GREEN")

====
